---- MODULE Spec2Model ----
(***************************************************************************)
(* Model of batch_convert_docs.py: the ShipAnyDocsConverter class and the  *)
(* script body that runs convert_all() and then create_index().            *)
(*                                                                         *)
(* Strings are sequences of one-character strings, so that split, replace, *)
(* title and urljoin are computed character by character as Python does.   *)
(* A string literal of the source that no operation looks into (a message  *)
(* prefix, the output directory, a CJK label) is kept as a single element. *)
(***************************************************************************)
EXTENDS Integers, Sequences, FiniteSets, TLC

VARIABLES
    pages,              \* the catalog, get_all_pages() of the run
    remote,             \* what the site answers for each page path
    phase,              \* where the process is
    i,                  \* entries the loop of convert_all has been through
    successful, failed, \* the counters of convert_all
    response, soup, markdown_content, error,
                        \* locals of the last convert_page at its return
    files,              \* the output tree: path -> directory or file
    stdout,             \* the lines printed by the process
    run,                \* 1 for the first process, 2 for the second
    first_files, first_stdout
                        \* the output tree and output the first process left

vars == <<pages, remote, phase, i, successful, failed, response, soup,
          markdown_content, error, files, stdout, run, first_files,
          first_stdout>>

\* ------------------------------------------------------------------ bounds

\* Longest catalog the index is built for, the program's own aside.
MaxPages == 3

\* Longest catalog a whole run is followed on.
MaxRunPages == 2

\* Longest catalog two runs in succession are followed on.
MaxTwicePages == 1

\* Most nodes of a parsed document tree.
MaxNodes == 3

\* Python's None is the empty tuple, and a value v that may be None is <<v>>.
None == <<>>

Some(v) == <<v>>

\* ------------------------------------------------------------- str methods

LowerChars == <<"a","b","c","d","e","f","g","h","i","j","k","l","m",
                "n","o","p","q","r","s","t","u","v","w","x","y","z">>

UpperChars == <<"A","B","C","D","E","F","G","H","I","J","K","L","M",
                "N","O","P","Q","R","S","T","U","V","W","X","Y","Z">>

Range(s) == {s[k] : k \in DOMAIN s}

islower(c) == c \in Range(LowerChars)

isupper(c) == c \in Range(UpperChars)

IndexOf(c, s) == CHOOSE k \in DOMAIN s : s[k] = c

upper(c) == IF islower(c) THEN UpperChars[IndexOf(c, LowerChars)] ELSE c

lower(c) == IF isupper(c) THEN LowerChars[IndexOf(c, UpperChars)] ELSE c

\* str.title(): a cased character is upper-cased when the character before it
\* is uncased (or there is none) and lower-cased otherwise.
RECURSIVE TitleFrom(_, _)
TitleFrom(s, previous_is_cased) ==
    IF s = <<>> THEN <<>>
    ELSE LET c == Head(s)
             cased == islower(c) \/ isupper(c)
             out == IF previous_is_cased THEN lower(c) ELSE upper(c)
         IN  <<out>> \o TitleFrom(Tail(s), cased)

title(s) == TitleFrom(s, FALSE)

\* str.replace(old, new) for a one-character old.
RECURSIVE replace(_, _, _)
replace(s, old, new) ==
    IF s = <<>> THEN <<>>
    ELSE (IF Head(s) = old THEN new ELSE <<Head(s)>>) \o replace(Tail(s), old, new)

\* str.split(sep): the pieces between the separators, empty pieces included.
RECURSIVE split(_, _)
split(s, sep) ==
    IF \A k \in DOMAIN s : s[k] # sep THEN <<s>>
    ELSE LET k == CHOOSE j \in DOMAIN s :
                      s[j] = sep /\ \A h \in 1..(j - 1) : s[h] # sep
         IN  <<SubSeq(s, 1, k - 1)>> \o split(SubSeq(s, k + 1, Len(s)), sep)

\* "/".join(parts)
RECURSIVE join(_, _)
join(parts, sep) ==
    IF parts = <<>> THEN <<>>
    ELSE IF Len(parts) = 1 THEN parts[1]
    ELSE parts[1] \o <<sep>> \o join(Tail(parts), sep)

\* ------------------------------------------------------------ page catalog

\* get_all_pages(): the dict literal, in insertion order.  Every key equals
\* its value, so one string stands for the (page_path, filename) pair.
get_all_pages ==
    <<
       <<"g","e","t","-","s","t","a","r","t","e","d">>,
       <<"g","u","i","d","e","/","p","r","e","r","e","q","u","i","s","i","t","e","s">>,
       <<"g","u","i","d","e","/","w","h","a","t","s","-","n","e","w">>,
       <<"g","u","i","d","e","/","f","a","q">>,
       <<"f","e","a","t","u","r","e","s","/","d","a","t","a","b","a","s","e">>,
       <<"f","e","a","t","u","r","e","s","/","o","a","u","t","h">>,
       <<"f","e","a","t","u","r","e","s","/","a","n","a","l","y","t","i","c","s">>,
       <<"f","e","a","t","u","r","e","s","/","i","1","8","n">>,
       <<"f","e","a","t","u","r","e","s","/","s","t","o","r","a","g","e">>,
       <<"f","e","a","t","u","r","e","s","/","s","e","o">>,
       <<"f","e","a","t","u","r","e","s","/","b","l","o","g">>,
       <<"f","e","a","t","u","r","e","s","/","e","m","a","i","l">>,
       <<"f","e","a","t","u","r","e","s","/","e","m","a","i","l","/","r","e","s","e","n","d">>,
       <<"p","a","y","m","e","n","t","/","s","t","r","i","p","e">>,
       <<"p","a","y","m","e","n","t","/","c","r","e","e","m">>,
       <<"f","e","e","d","b","a","c","k">>,
       <<"a","f","f","i","l","i","a","t","e">>,
       <<"e","m","a","i","l","s">>,
       <<"u","s","e","r","-","c","o","n","s","o","l","e","/","u","s","e","r","-","c","o","n","s","o","l","e">>,
       <<"u","s","e","r","-","c","o","n","s","o","l","e","/","n","e","w","-","t","a","b","l","e">>,
       <<"u","s","e","r","-","c","o","n","s","o","l","e","/","a","p","i","-","k","e","y","s">>,
       <<"u","s","e","r","-","c","o","n","s","o","l","e","/","c","r","e","d","i","t","s">>,
       <<"a","d","m","i","n","-","s","y","s","t","e","m","/","a","d","m","i","n","-","c","o","n","f","i","g">>,
       <<"a","d","m","i","n","-","s","y","s","t","e","m","/","a","d","m","i","n","-","l","a","y","o","u","t">>,
       <<"a","d","m","i","n","-","s","y","s","t","e","m","/","a","d","d","-","t","a","b","l","e">>,
       <<"a","i","-","i","n","t","e","g","r","a","t","i","o","n","s","/","i","m","a","g","e","-","g","e","n","e","r","a","t","i","o","n">>,
       <<"a","i","-","i","n","t","e","g","r","a","t","i","o","n","s","/","v","i","d","e","o","-","g","e","n","e","r","a","t","i","o","n">>,
       <<"a","i","-","i","n","t","e","g","r","a","t","i","o","n","s","/","t","e","x","t","-","g","e","n","e","r","a","t","i","o","n">>,
       <<"a","i","-","i","n","t","e","g","r","a","t","i","o","n","s","/","c","h","a","t","-","c","o","m","p","l","e","t","i","o","n","s">>,
       <<"a","i","-","i","n","t","e","g","r","a","t","i","o","n","s","/","t","e","x","t","-","t","o","-","s","p","e","e","c","h">>,
       <<"c","o","m","p","o","n","e","n","t","s","/","h","e","a","d","e","r">>,
       <<"c","o","m","p","o","n","e","n","t","s","/","h","e","r","o">>,
       <<"c","o","m","p","o","n","e","n","t","s","/","f","e","a","t","u","r","e">>,
       <<"c","o","m","p","o","n","e","n","t","s","/","s","h","o","w","c","a","s","e">>,
       <<"c","o","m","p","o","n","e","n","t","s","/","p","r","i","c","i","n","g">>,
       <<"c","o","m","p","o","n","e","n","t","s","/","t","e","s","t","i","m","o","n","i","a","l">>,
       <<"c","o","m","p","o","n","e","n","t","s","/","f","a","q">>,
       <<"c","o","m","p","o","n","e","n","t","s","/","c","t","a">>,
       <<"c","o","m","p","o","n","e","n","t","s","/","f","o","o","t","e","r">>,
       <<"d","e","p","l","o","y","/","d","e","p","l","o","y","-","t","o","-","v","e","r","c","e","l">>,
       <<"d","e","p","l","o","y","/","d","e","p","l","o","y","-","t","o","-","c","l","o","u","d","f","l","a","r","e">>,
       <<"d","e","p","l","o","y","/","d","e","p","l","o","y","-","w","i","t","h","-","d","o","k","p","l","o","y">>,
       <<"t","u","t","o","r","i","a","l","s","/","c","u","s","t","o","m","i","z","e","-","l","a","n","d","i","n","g","-","p","a","g","e">>,
       <<"t","u","t","o","r","i","a","l","s","/","n","e","w","-","p","a","g","e">>,
       <<"t","u","t","o","r","i","a","l","s","/","n","e","w","-","c","o","m","p","o","n","e","n","t","s">>,
       <<"t","u","t","o","r","i","a","l","s","/","a","p","i","-","c","a","l","l">>,
       <<"t","u","t","o","r","i","a","l","s","/","e","d","i","t","-","a","g","r","e","e","m","e","n","t">>
    >>

\* Stems the generic catalogs are drawn from.
Stems ==
    { <<"x">>, <<"y">>, <<"a","-","b">>,
      <<"a","/","x">>, <<"a","/","y">>, <<"b","/","z">>,
      <<"a","/","b","/","x">> }

\* Entries of the program's catalog a whole run is followed on.
RunStems ==
    { <<"e","m","a","i","l","s">>,
      <<"g","u","i","d","e","/","f","a","q">>,
      <<"f","e","a","t","u","r","e","s","/","i","1","8","n">> }

\* The program's catalog cut down to some of its entries, their order kept.
SubCatalogs(S, longest) ==
    { SelectSeq(get_all_pages, LAMBDA p : p \in T) :
        T \in { U \in SUBSET S : 1 <= Cardinality(U) /\ Cardinality(U) <= longest } }

\* The ordered catalogs over a set of stems: a dict holds each key once.
CatalogsOver(S, longest) ==
    { c \in UNION { [1..n -> S] : n \in 1..longest } :
        \A j, k \in DOMAIN c : j # k => c[j] # c[k] }

\* --------------------------------------------------------------- index file

\* The three CJK literals of create_index, each kept whole.
IndexTitle == <<"ShipAny [wendang suoyin]">>

IndexIntro == <<"[ben wendang baohan ShipAny xiangmu de wanzheng caozuo zhinan]">>

TocLabel == <<"[mulu jiegou]">>

FallbackSection == <<"[zhuyao wendang]">>

\* A line of the index file: an H1/H2 heading, a paragraph or a list item
\* "- [text](link)".
Line(kind, text, link) == [kind |-> kind, text |-> text, link |-> link]

IndexHeader ==
    << Line("h1", IndexTitle, <<>>),
       Line("p", IndexIntro, <<>>),
       Line("h2", TocLabel, <<>>) >>

\* section = filename.split('/')[0] if '/' in filename else <fallback>
SectionOf(filename) ==
    IF "/" \in Range(filename) THEN split(filename, "/")[1] ELSE FallbackSection

\* title = filename.split('/')[-1].replace('-', ' ').title()
ItemTitle(filename) ==
    LET parts == split(filename, "/")
    IN  title(replace(parts[Len(parts)], "-", <<" ">>))

ItemLink(filename) == <<"./">> \o filename \o <<".md">>

\* A faulty variant: the comparison always finds a change, so every entry is headed.
SectionChanged_always(section, current_section) == section # <<>>

\* if section != current_section
SectionChanged(section, current_section) == section # current_section

\* The loop of create_index over the remaining entries.
RECURSIVE IndexLoop(_, _, _)
IndexLoop(entries, current_section, index_content) ==
    IF entries = <<>> THEN index_content
    ELSE LET filename == Head(entries)
             section == SectionOf(filename)
             changed == SectionChanged(section, current_section)
             heading == IF changed
                        THEN <<Line("h2", title(section), <<>>)>>
                        ELSE <<>>
             item == Line("item", ItemTitle(filename), ItemLink(filename))
         IN  IndexLoop(Tail(entries),
                       IF changed THEN section ELSE current_section,
                       index_content \o heading \o <<item>>)

\* index_content as create_index assembles it for a catalog.
BuildIndex(catalog) == IndexLoop(catalog, <<>>, IndexHeader)

\* ---------------------------------------------------------------- urljoin

\* The constructor's default base_url, as urlparse splits it.
base_url ==
    [scheme |-> "https", netloc |-> "docs.shipany.ai", path |-> <<"/","e","n">>]

\* urlunparse: scheme://netloc followed by the path.
urlunparse(u) == <<u.scheme, "://", u.netloc>> \o u.path

RECURSIVE FilterEmpty(_)
FilterEmpty(parts) ==
    IF parts = <<>> THEN <<>>
    ELSE (IF Head(parts) = <<>> THEN <<>> ELSE <<Head(parts)>>)
         \o FilterEmpty(Tail(parts))

\* base_parts of urljoin: the base path split at "/", its last piece deleted
\* unless that piece is empty (the base path ends with "/").
BaseParts(bpath) ==
    LET base_parts == split(bpath, "/")
    IN  IF base_parts[Len(base_parts)] # <<>>
        THEN SubSeq(base_parts, 1, Len(base_parts) - 1)
        ELSE base_parts

\* urllib.parse.urljoin(base, path) for a relative path without scheme,
\* netloc, query or dot segments (every catalog path is one).
urljoin(base, path) ==
    LET segments == IF path # <<>> /\ Head(path) = "/"
                    THEN split(path, "/")
                    ELSE BaseParts(base.path) \o split(path, "/")
        n == Len(segments)
        resolved == IF n <= 2 THEN segments
                    ELSE <<segments[1]>> \o FilterEmpty(SubSeq(segments, 2, n - 1))
                         \o <<segments[n]>>
    IN  urlunparse([scheme |-> base.scheme, netloc |-> base.netloc,
                    path |-> join(resolved, "/")])

\* ------------------------------------------------------- parsed documents

NodeTags == {"nav", "aside", "footer", "script", "style", "div", "#text"}

\* A parsed document: nodes 1..n in document order, parent 0 is the soup
\* object itself; live holds the nodes not yet decomposed.
IsAncestorOrSelf(parent, a, k) ==
    LET RECURSIVE Up(_)
        Up(m) == IF m = a THEN TRUE ELSE IF m = 0 THEN FALSE ELSE Up(parent[m])
    IN  Up(k)

\* The parent vectors of n nodes numbered in document order: a node's
\* parent is the node before it or one of that node's ancestors.
Shapes(n) ==
    { p \in [1..n -> 0..(n - 1)] :
        \A k \in 1..n :
            /\ p[k] < k
            /\ k > 1 => IsAncestorOrSelf(p, p[k], k - 1) }

\* The taggings of a shape: a text node has no children.
Taggings(p) ==
    { t \in [DOMAIN p -> NodeTags] :
        \A k \in DOMAIN p : p[k] # 0 => t[p[k]] # "#text" }

Tree(t, p) == [tag |-> t, parent |-> p, live |-> DOMAIN p]

ExcludedTags == <<"nav", "aside", "footer", "script", "style">>

RECURSIVE SeqOfSet(_)
SeqOfSet(S) ==
    IF S = {} THEN <<>>
    ELSE LET m == CHOOSE x \in S : \A y \in S : x <= y
         IN  <<m>> \o SeqOfSet(S \ {m})

\* soup.find_all(names): the live elements with one of the names, in
\* document order.
find_all(tree, names) ==
    SeqOfSet({ k \in tree.live : tree.tag[k] \in Range(names) })

\* A faulty variant: only the element itself leaves the tree (as unwrap() would do);
\* what is below it stays.
decompose_unwrap(tree, k) == [tree EXCEPT !.live = @ \ {k}]

\* tag.decompose(): the element and everything below it leave the tree; on
\* an element already decomposed with an ancestor it changes nothing.
decompose(tree, k) ==
    [tree EXCEPT !.live =
        @ \ { m \in DOMAIN tree.tag : IsAncestorOrSelf(tree.parent, k, m) }]

RECURSIVE DecomposeEach(_, _)
DecomposeEach(tree, tags) ==
    IF tags = <<>> THEN tree
    ELSE DecomposeEach(decompose(tree, Head(tags)), Tail(tags))

\* for tag in soup.find_all([...]): tag.decompose()
RemoveExcluded(tree) == DecomposeEach(tree, find_all(tree, ExcludedTags))

\* self.h.handle(str(soup)): the text of the remaining tree in document
\* order; the text of node k is written <<"text", k>>.
handle(tree) ==
    LET texts == SeqOfSet({ k \in tree.live : tree.tag[k] = "#text" })
    IN  [k \in DOMAIN texts |-> <<"text", texts[k]>>]

\* ------------------------------------------------------------ the remote

EmptyPage == [tag |-> <<>>, parent |-> <<>>, live |-> {}]

\* <nav>..</nav> followed by text, as in a documentation page.
DocPage == [tag |-> <<"nav", "#text", "#text">>, parent |-> <<0, 1, 0>>,
            live |-> {1, 2, 3}]

\* A page whose only text is the server's error text.
ErrorPage == [tag |-> <<"#text">>, parent |-> <<0>>, live |-> {1}]

\* What the server answers for a page: a final status (redirects that carry
\* a Location are followed by requests and never seen) and the parsed body.
Responses ==
    { [status |-> 200, content |-> DocPage],
      [status |-> 304, content |-> EmptyPage],
      [status |-> 404, content |-> ErrorPage],
      [status |-> 500, content |-> ErrorPage] }

\* A faulty variant: only client errors raise.
raise_for_status_client_only(status) == 400 <= status /\ status < 500

\* response.raise_for_status() raises for 400 <= status < 600.
raise_for_status(status) == 400 <= status /\ status < 600

\* ------------------------------------------------------------- file system

OutputRoot == <<"s","h","i","p","a","n","y","_","d","o","c","s">>

\* An entry of the output tree: a directory, or a file with the strings
\* written to it so far.
Dir == [kind |-> "dir", written |-> <<>>]

File(written) == [kind |-> "file", written |-> written]

\* file_path = f"shipany_docs/{filename}.md"
file_path(filename) == OutputRoot \o <<"/">> \o filename \o <<".md">>

ReadmePath == OutputRoot \o <<"/">> \o <<"README.md">>

\* os.makedirs(os.path.dirname(file_path), exist_ok=True): the directory of
\* the path and every directory above it.
makedirs(path, fs) ==
    LET parts == split(path, "/")
        made == { join(SubSeq(parts, 1, k), "/") : k \in 1..(Len(parts) - 1) }
    IN  [d \in made \ DOMAIN fs |-> Dir] @@ fs

\* f"# {filename.replace('/', ' - ').title()}\n\n"
TitleLine(filename) ==
    <<"# ">> \o title(replace(filename, "/", <<" ", "-", " ">>)) \o <<"\n\n">>

\* f"[laiyuan]: {url}\n\n", the label being the two CJK characters.
SourceLine(url) == <<"[laiyuan]: ">> \o url \o <<"\n\n">>

\* ------------------------------------------------------------ convert_page

Msg(kind, arg) == [msg |-> kind, arg |-> arg]

\* The call of convert_page that raises first, if any: session.get
\* (connection error or timeout), BeautifulSoup, handle, makedirs, open, or
\* one of the three writes.
Faults == {"none", "get", "parse", "handle", "makedirs", "open",
           "write1", "write2", "write3"}

\* How many of the three writes are done before the fault.
WritesDone(fault) ==
    CASE fault = "write1" -> 0
      [] fault = "write2" -> 1
      [] fault = "write3" -> 2
      [] OTHER -> 3

\* The statements of the try block a fault or a bad status keeps from
\* running, in order: get, raise_for_status, parse, handle, makedirs, open,
\* write.
Reached(fault, resp) ==
    LET got == fault # "get"
        good == got /\ ~raise_for_status(resp.status)
        parsed == good /\ fault # "parse"
        rendered == parsed /\ fault # "handle"
        dirs == rendered /\ fault # "makedirs"
        opened == dirs /\ fault # "open"
        written == opened /\ fault \notin {"write1", "write2", "write3"}
    IN  [got |-> got, good |-> good, parsed |-> parsed, rendered |-> rendered,
         dirs |-> dirs, opened |-> opened, written |-> written]

\* The exception the except clause catches.
Caught(fault, resp) ==
    CASE fault = "get" -> "RequestException"
      [] raise_for_status(resp.status) -> "HTTPError"
      [] fault = "parse" -> "ParserError"
      [] fault = "handle" -> "RenderError"
      [] OTHER -> "OSError"

\* A faulty variant: the file is opened with 'a', so the strings follow what it held.
WriteFile_append(path, strings, n, fs) ==
    LET old == IF path \in DOMAIN fs THEN fs[path].written ELSE <<>>
    IN  (path :> File(old \o SubSeq(strings, 1, n))) @@ fs

\* with open(file_path, 'w') as f: the file is emptied, then the first n of
\* the strings are written.
WriteFile(path, strings, n, fs) == (path :> File(SubSeq(strings, 1, n))) @@ fs

\* convert_page(page_path, filename) on file system fs against the response
\* resp, with the given fault: the value returned, the locals at return, the
\* file system and the lines printed.
convert_page(page_path, filename, resp, fault, fs) ==
    LET url == urljoin(base_url, page_path)
        at == Reached(fault, resp)
        tree == RemoveExcluded(resp.content)
        md == handle(tree)
        path == file_path(filename)
        whole == <<TitleLine(filename), SourceLine(url), md>>
        fs1 == IF at.dirs THEN makedirs(path, fs) ELSE fs
        fs2 == IF at.opened
               THEN WriteFile(path, whole, WritesDone(fault), fs1)
               ELSE fs1
    IN  [ok |-> at.written,
         url |-> url,
         response |-> IF at.got THEN Some(resp) ELSE None,
         soup |-> IF at.parsed THEN Some(tree) ELSE None,
         markdown_content |-> IF at.rendered THEN Some(md) ELSE None,
         error |-> IF at.written THEN None ELSE Some(Caught(fault, resp)),
         files |-> fs2,
         printed |-> <<Msg("converting", url),
                       IF at.written THEN Msg("saved", path)
                       ELSE Msg("failed", url)>>]

\* ------------------------------------------------------------ create_index

\* The call of create_index that raises, if any: open, or the write.
IndexFaults == {"none", "open", "write"}

\* A faulty variant: the index lists only the entries whose file exists.
create_index_converted_only(catalog, fault, fs) ==
    LET converted == SelectSeq(catalog, LAMBDA f : file_path(f) \in DOMAIN fs)
        index_content == BuildIndex(converted)
    IN  [raised |-> fault # "none",
         files |-> CASE fault = "open" -> fs
                     [] fault = "write" -> (ReadmePath :> File(<<>>)) @@ fs
                     [] OTHER -> (ReadmePath :> File(<<index_content>>)) @@ fs,
         printed |-> IF fault = "none" THEN <<Msg("index", ReadmePath)>> ELSE <<>>]

\* create_index() on file system fs: whether it raised, the file system and
\* the lines printed.
create_index(catalog, fault, fs) ==
    LET index_content == BuildIndex(catalog)
    IN  [raised |-> fault # "none",
         files |-> CASE fault = "open" -> fs
                     [] fault = "write" -> (ReadmePath :> File(<<>>)) @@ fs
                     [] OTHER -> (ReadmePath :> File(<<index_content>>)) @@ fs,
         printed |-> IF fault = "none" THEN <<Msg("index", ReadmePath)>> ELSE <<>>]

\* ------------------------------------------------------------------ states

\* After ShipAnyDocsConverter(): the output directory exists.
AfterConstruction ==
    /\ phase = "INIT"
    /\ i = 0
    /\ successful = 0
    /\ failed = 0
    /\ response = None
    /\ soup = None
    /\ markdown_content = None
    /\ error = None
    /\ files = (OutputRoot :> Dir)
    /\ stdout = <<>>
    /\ run = 1
    /\ first_files = None
    /\ first_stdout = None

\* A run of the script over some entries of its catalog, against a site that
\* answers each page the same way every time it is asked.
Init ==
    /\ pages \in SubCatalogs(RunStems, MaxRunPages)
    /\ remote \in [Range(pages) -> Responses]
    /\ AfterConstruction

\* ----------------------------------------------------------------- actions

\* convert_all, up to the loop.
convert_all_begin ==
    /\ phase = "INIT"
    /\ phase' = "ITERATING"
    /\ i' = 0
    /\ successful' = 0
    /\ failed' = 0
    /\ UNCHANGED <<pages, remote, response, soup, markdown_content, error,
                   files, stdout, run, first_files, first_stdout>>

\* A faulty variant: failed += 1 stands outside the else branch.
Tally_failed_always(ok) ==
    [successful |-> IF ok THEN successful + 1 ELSE successful,
     failed |-> failed + 1]

\* if self.convert_page(...): successful += 1  else: failed += 1
Tally(ok) ==
    [successful |-> IF ok THEN successful + 1 ELSE successful,
     failed |-> IF ok THEN failed ELSE failed + 1]

\* One iteration of the loop of convert_all: convert_page on the next entry,
\* then the count.
convert_all_iterate ==
    /\ phase = "ITERATING"
    /\ i < Len(pages)
    /\ \E fault \in Faults :
         LET page_path == pages[i + 1]
             filename == pages[i + 1]
             r == convert_page(page_path, filename, remote[page_path], fault, files)
         IN  /\ successful' = Tally(r.ok).successful
             /\ failed' = Tally(r.ok).failed
             /\ response' = r.response
             /\ soup' = r.soup
             /\ markdown_content' = r.markdown_content
             /\ error' = r.error
             /\ files' = r.files
             /\ stdout' = stdout \o r.printed
    /\ i' = i + 1
    /\ UNCHANGED <<pages, remote, phase, run, first_files, first_stdout>>

\* A faulty variant: the completion message is not printed by convert_all.
convert_all_end_silent ==
    /\ phase = "ITERATING"
    /\ i = Len(pages)
    /\ phase' = "INDEXING"
    /\ UNCHANGED <<pages, remote, i, successful, failed, response, soup,
                   markdown_content, error, files, stdout, run, first_files,
                   first_stdout>>

\* convert_all after the loop: the completion message with the counts.
convert_all_end ==
    /\ phase = "ITERATING"
    /\ i = Len(pages)
    /\ stdout' = stdout \o <<Msg("complete", <<successful, failed>>)>>
    /\ phase' = "INDEXING"
    /\ UNCHANGED <<pages, remote, i, successful, failed, response, soup,
                   markdown_content, error, files, run, first_files,
                   first_stdout>>

\* converter.create_index() called in the given phase; an exception it
\* raises is caught nowhere and ends the process.
CallCreateIndex(from) ==
    /\ phase = from
    /\ \E fault \in IndexFaults :
         LET r == create_index(pages, fault, files)
         IN  /\ files' = r.files
             /\ stdout' = stdout \o r.printed
             /\ phase' = IF r.raised THEN "ABORTED" ELSE "DONE"
    /\ UNCHANGED <<pages, remote, i, successful, failed, response, soup,
                   markdown_content, error, run, first_files, first_stdout>>

\* A faulty variant: create_index() is called from inside the loop.
main_create_index_in_loop == CallCreateIndex("ITERATING")

\* The script's converter.create_index(), after convert_all() returned.
main_create_index == CallCreateIndex("INDEXING")

Next ==
    \/ convert_all_begin
    \/ convert_all_iterate
    \/ convert_all_end
    \/ main_create_index

Spec == Init /\ [][Next]_vars

\* ------------------------------------------------- two runs in succession

\* The script is started again once the first process has ended (normally or
\* by the uncaught exception of create_index): a new process on the output
\* tree the first one left, with the site unchanged.
second_run ==
    /\ run = 1
    /\ phase \in {"DONE", "ABORTED"}
    /\ run' = 2
    /\ first_files' = Some(files)
    /\ first_stdout' = Some(stdout)
    /\ phase' = "INIT"
    /\ i' = 0
    /\ successful' = 0
    /\ failed' = 0
    /\ response' = None
    /\ soup' = None
    /\ markdown_content' = None
    /\ error' = None
    /\ stdout' = <<>>
    /\ UNCHANGED <<pages, remote, files>>

InitTwice ==
    /\ pages \in SubCatalogs(RunStems, MaxTwicePages)
    /\ remote \in [Range(pages) -> Responses]
    /\ AfterConstruction

NextTwice == Next \/ second_run

SpecTwice == InitTwice /\ [][NextTwice]_vars

\* ------------------------------------------------- create_index on its own

\* ShipAnyDocsConverter().create_index() for a catalog: the program's, or
\* any ordered catalog of distinct stems.
InitIndex ==
    /\ pages \in CatalogsOver(Stems, MaxPages) \cup {get_all_pages}
    /\ remote = [p \in Range(pages) |-> [status |-> 200, content |-> DocPage]]
    /\ AfterConstruction

call_create_index == CallCreateIndex("INIT")

NextIndex == call_create_index

SpecIndex == InitIndex /\ [][NextIndex]_vars

\* ---------------------------------------------- the extraction on its own

\* Lines 113-120 of convert_page on any parsed document: soup holds the
\* tree BeautifulSoup returned.
InitExtract ==
    /\ \E n \in 0..MaxNodes : \E p \in Shapes(n) : \E t \in Taggings(p) :
         soup = Some(Tree(t, p))
    /\ pages = <<>>
    /\ remote = <<>>
    /\ phase = "PARSED"
    /\ i = 0
    /\ successful = 0
    /\ failed = 0
    /\ response = None
    /\ markdown_content = None
    /\ error = None
    /\ files = (OutputRoot :> Dir)
    /\ stdout = <<>>
    /\ run = 1
    /\ first_files = None
    /\ first_stdout = None

\* for tag in soup.find_all([...]): tag.decompose()
remove_excluded ==
    /\ phase = "PARSED"
    /\ soup' = Some(RemoveExcluded(soup[1]))
    /\ phase' = "CLEANED"
    /\ UNCHANGED <<pages, remote, i, successful, failed, response,
                   markdown_content, error, files, stdout, run, first_files,
                   first_stdout>>

\* markdown_content = self.h.handle(str(soup))
render ==
    /\ phase = "CLEANED"
    /\ markdown_content' = Some(handle(soup[1]))
    /\ phase' = "RENDERED"
    /\ UNCHANGED <<pages, remote, i, successful, failed, response, soup,
                   error, files, stdout, run, first_files, first_stdout>>

NextExtract == remove_excluded \/ render

SpecExtract == InitExtract /\ [][NextExtract]_vars

\* ------------------------------------------------ what the claims observe

Printed(kind) == SelectSeq(stdout, LAMBDA m : m.msg = kind)

\* The URLs requested so far, in order.
Attempted == [k \in DOMAIN Printed("converting") |-> Printed("converting")[k].arg]

\* The outcome printed for each entry processed so far, in order.
Results == SelectSeq(stdout, LAMBDA m : m.msg \in {"saved", "failed"})

Saved(k) == Results[k].msg = "saved"

Is2xx(status) == 200 <= status /\ status <= 299

IsErrorStatus(status) == 400 <= status /\ status <= 599

\* The complete file of an entry: title line, source line, Markdown body.
WholeFile(filename, url, content) ==
    File(<<TitleLine(filename), SourceLine(url), handle(RemoveExcluded(content))>>)

ReadmeWritten ==
    ReadmePath \in DOMAIN files /\ Len(files[ReadmePath].written) = 1

\* The lines of the index after its fixed header.
IndexBody ==
    LET content == files[ReadmePath].written[1]
    IN  SubSeq(content, Len(IndexHeader) + 1, Len(content))

HasLink(filename) ==
    \E j \in DOMAIN IndexBody :
        IndexBody[j].kind = "item" /\ IndexBody[j].link = <<"./">> \o filename \o <<".md">>

\* ------------------------------------------------------------------ claims

\* C1. Failure isolation: a failure while processing entry N does not end
\* the run.  The step that records a failure leaves the run in the loop, one
\* entry further; the loop is left only when every entry has been processed,
\* and then the index step is the next one; and the index, once written,
\* links every entry, the failed ones included.
C1_FailureIsolation ==
    /\ [](/\ phase = "ITERATING" => i <= Len(pages)
          /\ phase \in {"INDEXING", "DONE", "ABORTED"} =>
                /\ i = Len(pages)
                /\ Len(Results) = Len(pages)
          /\ phase = "DONE" =>
                /\ ReadmeWritten
                /\ \A n \in DOMAIN pages : HasLink(pages[n]))
    /\ [][failed' = failed + 1 => phase' = "ITERATING" /\ i' = i + 1]_vars
    /\ [][phase = "ITERATING" /\ phase' # "ITERATING" =>
            phase' = "INDEXING" /\ i = Len(pages)]_vars

\* C1 witness: the first entry failed, the second was converted, and the
\* index written afterwards links the failed one.
C1_Witness ==
    /\ phase = "DONE"
    /\ Len(pages) = 2
    /\ ~Saved(1)
    /\ Saved(2)
    /\ HasLink(pages[1])

PhaseOrder ==
    { <<"INIT", "ITERATING">>, <<"ITERATING", "INDEXING">>,
      <<"INDEXING", "DONE">>, <<"INDEXING", "ABORTED">> }

\* C2. Each catalog entry is attempted exactly once, in catalog order: the
\* requests made so far are those of the first i entries, one each.  The
\* index file exists only when all entries have been processed.  The phase
\* changes only along INIT, ITERATING, INDEXING, DONE (or, from INDEXING, to
\* the end of the process by the exception of the index step).
C2_OnceInOrderThenIndex ==
    /\ [](/\ Attempted = [k \in 1..i |-> urljoin(base_url, pages[k])]
          /\ Len(Results) = i
          /\ ReadmePath \in DOMAIN files =>
                i = Len(pages) /\ phase \in {"DONE", "ABORTED"})
    /\ [][phase' # phase => <<phase, phase'>> \in PhaseOrder]_vars

\* C2 witness: every entry of a two-entry catalog failed and the index file
\* was written all the same.
C2_Witness ==
    /\ phase = "DONE"
    /\ Len(pages) = 2
    /\ failed = 2
    /\ ReadmeWritten

\* C3. successful + failed is the number of entries processed; successful
\* counts the entries reported saved and failed those reported failed; an
\* entry is counted successful exactly when its complete file is in place;
\* the completion message carries counts that sum to the catalog size.
C3_CountsAddUp ==
    /\ successful + failed = i
    /\ LET results == Results
           saved == { k \in DOMAIN results : results[k].msg = "saved" }
       IN  /\ Len(results) = i
           /\ successful = Cardinality(saved)
           /\ failed = Cardinality(DOMAIN results \ saved)
           /\ \A k \in 1..i :
                k \in saved <=>
                   /\ file_path(pages[k]) \in DOMAIN files
                   /\ files[file_path(pages[k])] =
                         WholeFile(pages[k], Attempted[k], remote[pages[k]].content)
    /\ \A j \in DOMAIN stdout :
         stdout[j].msg = "complete" =>
            /\ stdout[j].arg = <<successful, failed>>
            /\ stdout[j].arg[1] + stdout[j].arg[2] = Len(pages)

\* C3 witness: a run completes with no success at all.
C3_Witness ==
    /\ phase = "DONE"
    /\ successful = 0
    /\ failed = Len(pages)
    /\ Printed("complete") # <<>>

\* C4. The URL requested for an entry is <base_url>/<relative_path>, the
\* base URL with every path segment kept.
C4_UrlIsBaseSlashPath ==
    \A k \in DOMAIN Attempted :
        Attempted[k] = urlunparse(base_url) \o <<"/">> \o pages[k]

\* C5 as stated. A response's fetch succeeds exactly when its status is 2xx:
\* a non-2xx response fails the entry at the status check and leaves no file,
\* a 2xx response passes the status check.
C5_FetchOkIff2xx ==
    (i >= 1 /\ response # None) =>
        LET status == response[1].status
        IN  /\ ~Is2xx(status) =>
                 /\ error = Some("HTTPError")
                 /\ ~Saved(i)
                 /\ file_path(pages[i]) \notin DOMAIN files
            /\ Is2xx(status) => error # Some("HTTPError")

\* C5 as amended. The status check fails exactly the 4xx and 5xx responses:
\* such a response fails the entry and leaves no file; every other response
\* received, 2xx or not, has its body passed on to the parser.
C5_FetchFailsIff4xx5xx ==
    (i >= 1 /\ response # None) =>
        LET status == response[1].status
        IN  /\ IsErrorStatus(status) =>
                 /\ error = Some("HTTPError")
                 /\ soup = None
                 /\ ~Saved(i)
                 /\ file_path(pages[i]) \notin DOMAIN files
            /\ ~IsErrorStatus(status) =>
                 /\ error # Some("HTTPError")
                 /\ soup # None \/ error = Some("ParserError")

\* C5 witness: a 5xx entry failed, and the next entry, answered 304, went
\* through extraction and was saved.
C5_Witness ==
    /\ i = 2
    /\ remote[pages[1]].status = 500
    /\ ~Saved(1)
    /\ response # None
    /\ response[1].status = 304
    /\ soup # None
    /\ Saved(2)

\* C8 as stated. The run that fails in the index step ends before the
\* completion message is printed.
C8_AbortBeforeCompletion ==
    phase = "ABORTED" => Printed("complete") = <<>>

\* C8 as amended. The process is ended by an exception only in the index
\* step, and then the completion message is already printed: it is the last
\* line of the output, after every entry has been processed.
C8_AbortAfterCompletion ==
    phase = "ABORTED" =>
        /\ i = Len(pages)
        /\ Len(Results) = Len(pages)
        /\ stdout # <<>>
        /\ stdout[Len(stdout)].msg = "complete"
        /\ Printed("index") = <<>>

\* C8 witness: the index step failed while writing, after entries failed.
C8_Witness ==
    /\ phase = "ABORTED"
    /\ failed >= 1
    /\ ReadmePath \in DOMAIN files
    /\ Printed("complete") # <<>>

\* The section of a stem as the claims define it: the first path segment,
\* or the fallback label when the stem has no "/".
SectionOfStem(stem) ==
    IF \E k \in DOMAIN stem : stem[k] = "/"
    THEN LET first == CHOOSE k \in DOMAIN stem :
                          stem[k] = "/" /\ \A h \in 1..(k - 1) : stem[h] # "/"
         IN  SubSeq(stem, 1, first - 1)
    ELSE FallbackSection

\* Entry k opens a section: it is the first entry or its section differs
\* from the section of the entry before it.
OpensSection(k) ==
    k = 1 \/ SectionOfStem(pages[k]) # SectionOfStem(pages[k - 1])

\* Where the item of entry k stands among the lines after the header.
ItemPosition(k) == k + Cardinality({ j \in 1..k : OpensSection(j) })

SectionHeadings == { j \in DOMAIN IndexBody : IndexBody[j].kind = "h2" }

\* C6. After its header the index holds, for each entry in catalog order,
\* one list item linking ./<stem>.md, preceded by a new H2 heading exactly
\* when the entry's section differs from the previous entry's; each item
\* stands under the heading of its own section.
C6_HeadingOnSectionChange ==
    ReadmeWritten =>
        /\ Len(IndexBody) = ItemPosition(Len(pages))
        /\ \A k \in DOMAIN pages :
             LET at == ItemPosition(k)
                 above == { j \in SectionHeadings : j < at }
                 nearest == CHOOSE j \in above : \A h \in above : h <= j
             IN  /\ IndexBody[at].kind = "item"
                 /\ IndexBody[at].link = <<"./">> \o pages[k] \o <<".md">>
                 /\ (at > 1 /\ IndexBody[at - 1].kind = "h2") <=> OpensSection(k)
                 /\ above # {}
                 /\ IndexBody[nearest].text = title(SectionOfStem(pages[k]))

\* C6 witness: stems a/x, a/y, b/z give heading, item, item, heading, item.
C6_Witness ==
    /\ pages = << <<"a","/","x">>, <<"a","/","y">>, <<"b","/","z">> >>
    /\ ReadmeWritten
    /\ [j \in DOMAIN IndexBody |-> IndexBody[j].kind]
          = <<"h2", "item", "item", "h2", "item">>
    /\ IndexBody[1].text = <<"A">>
    /\ IndexBody[4].text = <<"B">>

\* C7. In the index of the program's catalog every section, the fallback
\* section included, is headed exactly once.
C7_OneHeadingPerSection ==
    (pages = get_all_pages /\ ReadmeWritten) =>
        \A k \in DOMAIN pages :
            Cardinality({ j \in SectionHeadings :
                            IndexBody[j].text = title(SectionOfStem(pages[k])) }) = 1

\* The nodes of a tree that are an excluded element or lie inside one.
InsideExcluded(tree) ==
    { k \in DOMAIN tree.tag :
        \E a \in DOMAIN tree.tag :
            /\ tree.tag[a] \in {"nav", "aside", "footer", "script", "style"}
            /\ IsAncestorOrSelf(tree.parent, a, k) }

\* C9. Extraction removes exactly the nav, aside, footer, script and style
\* elements with all that is below them, at any depth; the Markdown holds
\* the text of every text node outside them, in document order, and of no
\* other.
C9_ExcludedSubtreesRemoved ==
    /\ phase \in {"CLEANED", "RENDERED"} =>
         soup[1].live = DOMAIN soup[1].tag \ InsideExcluded(soup[1])
    /\ phase = "RENDERED" =>
         LET tree == soup[1]
             md == markdown_content[1]
             kept == { k \in DOMAIN tree.tag \ InsideExcluded(tree) :
                         tree.tag[k] = "#text" }
         IN  /\ { md[j] : j \in DOMAIN md } = { <<"text", k>> : k \in kept }
             /\ Len(md) = Cardinality(kept)
             /\ \A j, h \in DOMAIN md : j < h => md[j][2] < md[h][2]

\* C9 witness: an excluded element nested in another excluded element has
\* been removed, text below an excluded element is gone and text outside is
\* in the Markdown.
C9_Witness ==
    /\ phase = "RENDERED"
    /\ \E a, b \in DOMAIN soup[1].tag :
         /\ soup[1].parent[b] = a
         /\ soup[1].tag[a] \in {"nav", "aside", "footer", "script", "style"}
         /\ soup[1].tag[b] \in {"nav", "aside", "footer", "script", "style", "#text"}
    /\ markdown_content[1] # <<>>

\* What the first and the second run printed for entry k.
SavedFirst(k) ==
    \E j \in DOMAIN first_stdout[1] :
        /\ first_stdout[1][j].msg = "saved"
        /\ first_stdout[1][j].arg = file_path(pages[k])

SavedSecond(k) ==
    \E j \in DOMAIN stdout :
        stdout[j].msg = "saved" /\ stdout[j].arg = file_path(pages[k])

IndexedFirst == \E j \in DOMAIN first_stdout[1] : first_stdout[1][j].msg = "index"

\* The paths a run may create: the root, <root>/<stem>.md for each entry with
\* the directories above it, and the index.
OutputPaths ==
    {OutputRoot, ReadmePath}
    \cup { file_path(pages[k]) : k \in DOMAIN pages }
    \cup UNION { LET parts == split(file_path(pages[k]), "/")
                 IN  { join(SubSeq(parts, 1, d), "/") : d \in 1..(Len(parts) - 1) } :
                 k \in DOMAIN pages }

====
